---- MODULE Spec2Model ----
(***************************************************************************)
(* Model of the ROM emulator setup core (rp/src/emul.c): the command       *)
(* handlers of the terminal menu, the ROM catalog, the flash provisioner,  *)
(* the download state machine and the boot/run loop of emul_start().       *)
(***************************************************************************)
EXTENDS Integers, Sequences, FiniteSets, TLC

(***************************************************************************)
(* Program constants (rp/src/include/emul.h).                              *)
(***************************************************************************)
ROM_MODE_DIRECT == 0
ROM_MODE_DELAY == 1
ROM_MODE_SETUP == 255

TERM_ROMS_MENU_MAIN == 0
TERM_ROMS_MENU_BROWSE_SD == 1
TERM_ROMS_MENU_BROWSE_NETWORK == 2
TERM_ROMS_MENU_LAUNCH == 3
TERM_ROMS_MENU_SETTINGS == 4
TERM_ROMS_MENU_EXIT == 5
TERM_ROMS_MENU_BOOSTER == 6
TERM_ROMS_MENU_SUBMENU == 256

DOWNLOAD_START_MS == 3000
DOWNLOAD_DAY_MS == 86400000
SLEEP_LOOP_MS == 100
MAX_FILENAME_LENGTH == 36

(***************************************************************************)
(* Bounds of the model.  MAX_ROMS (100 in emul.h) and MAX_ROMS_PER_PAGE    *)
(* (20 in emul.h) are scaled down so that overflow and several pages      *)
(* happen with folders of a handful of files.                              *)
(***************************************************************************)
MAX_ROMS == 3
MAX_ROMS_PER_PAGE == 2
\* The clock stops the model once it passes MaxTime milliseconds.
MaxTime == 5000

(***************************************************************************)
(* Characters and strings.  A C string is a sequence of one-character      *)
(* strings; Alphabet lists the characters in use in ASCII order.           *)
(***************************************************************************)
Alphabet ==
  << " ", "%", ".", "/", "0", "1", "2", "3", "4", "5", "6", "7", "8", "9",
     "A", "B", "C", "G", "I", "M", "N", "O", "R",
     "a", "b", "c", "g", "i", "m", "n", "o", "q", "r", "s", "t", "x" >>

Code(c) == CHOOSE i \in 1..Len(Alphabet) : Alphabet[i] = c

Digits == << "0", "1", "2", "3", "4", "5", "6", "7", "8", "9" >>

isdigit(c) == \E i \in 1..10 : Digits[i] = c

DigitValue(c) == (CHOOSE i \in 1..10 : Digits[i] = c) - 1

Uppers == << "A", "B", "C", "G", "I", "M", "N", "O", "R" >>
Lowers == << "a", "b", "c", "g", "i", "m", "n", "o", "r" >>

tolower(c) ==
  IF \E i \in 1..Len(Uppers) : Uppers[i] = c
    THEN Lowers[CHOOSE i \in 1..Len(Uppers) : Uppers[i] = c]
    ELSE c

Min(a, b) == IF a < b THEN a ELSE b

Take(s, n) == SubSeq(s, 1, Min(n, Len(s)))

\* strcasecmp: <0, 0, >0 after folding both strings to lower case.
RECURSIVE strcasecmp(_, _)
strcasecmp(a, b) ==
  IF a = <<>> /\ b = <<>> THEN 0
  ELSE IF a = <<>> THEN -1
  ELSE IF b = <<>> THEN 1
  ELSE IF tolower(Head(a)) # tolower(Head(b))
    THEN Code(tolower(Head(a))) - Code(tolower(Head(b)))
  ELSE strcasecmp(Tail(a), Tail(b))

\* atoi: optional leading blanks, then the leading run of digits (0 if none).
RECURSIVE AtoiDigits(_, _)
AtoiDigits(s, acc) ==
  IF s = <<>> \/ ~isdigit(Head(s)) THEN acc
  ELSE AtoiDigits(Tail(s), acc * 10 + DigitValue(Head(s)))

RECURSIVE atoi(_)
atoi(s) ==
  IF s # <<>> /\ Head(s) = " " THEN atoi(Tail(s)) ELSE AtoiDigits(s, 0)

(***************************************************************************)
(* The ROM catalog: roms[MAX_ROMS], romsCount and the pagination state.    *)
(***************************************************************************)
\* The ROMs folder (static romsFolder, default "/roms").
RomsFolder == << "/", "r", "o", "m", "s" >>

\* A zero-initialised ROM structure (static storage).
EmptyRom ==
  [filename |-> <<>>, path |-> <<>>, name |-> <<>>, description |-> <<>>,
   tags |-> <<>>, size |-> 0]

\* Index of the last '.' of the string, 0 when there is none (strrchr).
LastDot(s) ==
  IF \E i \in 1..Len(s) : s[i] = "."
    THEN CHOOSE i \in 1..Len(s) :
           s[i] = "." /\ \A j \in (i + 1)..Len(s) : s[j] # "."
    ELSE 0

ValidExtensions ==
  { << "i", "m", "g" >>, << "r", "o", "m" >>, << "s", "t", "c" >>,
    << "b", "i", "n" >> }

\* hasValidExtension that accepts every extension.
hasValidExtensionAny(filename) == LastDot(filename) > 1

hasValidExtension(filename) ==
  LET dot == LastDot(filename) IN
    IF dot = 0 \/ dot = 1 THEN FALSE
    ELSE \E e \in ValidExtensions :
           strcasecmp(SubSeq(filename, dot + 1, Len(filename)), e) = 0

compareRoms(romA, romB) == strcasecmp(romA.filename, romB.filename)

\* qsort(roms, n, sizeof(ROM), compareRoms): every arrangement of the first
\* n slots that is ordered by compareRoms (qsort is not stable); the slots
\* from n on are not touched.
qsort(arr, n) ==
  { [i \in DOMAIN arr |-> IF i < n THEN arr[p[i]] ELSE arr[i]] :
      p \in { q \in [0..(n - 1) -> 0..(n - 1)] :
                /\ \A i, j \in 0..(n - 1) : i # j => q[i] # q[j]
                /\ \A i \in 0..(n - 2) :
                     compareRoms(arr[q[i]], arr[q[i + 1]]) <= 0 } }

PageCount(n) == (n + MAX_ROMS_PER_PAGE - 1) \div MAX_ROMS_PER_PAGE

\* The directory loop of readRomsSdcard: st = [roms, romsCount, overflow],
\* entries the directory entries still to be read; overflow is set when
\* "Maximum ROM count reached" is logged.
RECURSIVE ScanDir(_, _)
ScanDir(st, entries) ==
  IF entries = <<>> THEN st
  ELSE LET fno == Head(entries) IN
    IF fno.dir THEN ScanDir(st, Tail(entries))
    ELSE IF fno.fname[1] = "." THEN ScanDir(st, Tail(entries))
    ELSE IF ~hasValidExtension(fno.fname) THEN ScanDir(st, Tail(entries))
    ELSE IF st.romsCount < MAX_ROMS
      THEN ScanDir(
             [roms |-> [st.roms EXCEPT ![st.romsCount] =
                          [@ EXCEPT
                             !.filename = Take(fno.fname, MAX_FILENAME_LENGTH - 1),
                             !.name = Take(fno.fname, MAX_FILENAME_LENGTH - 1),
                             !.path = RomsFolder \o << "/" >> \o fno.fname]],
              romsCount |-> st.romsCount + 1,
              overflow |-> FALSE],
             Tail(entries))
    ELSE [st EXCEPT !.overflow = TRUE]

\* readRomsSdcard(folder): dir.open is FALSE when f_opendir fails, else
\* dir.entries are the directory entries.  The result is the set of possible
\* [roms, romsCount, maxRomPages, overflow] after the call.
readRomsSdcard(dir, st) ==
  IF ~dir.open
    THEN { [roms |-> st.roms, romsCount |-> st.romsCount,
            maxRomPages |-> st.maxRomPages, overflow |-> FALSE] }
  ELSE LET scanned == ScanDir([roms |-> st.roms, romsCount |-> 0,
                               overflow |-> FALSE], dir.entries) IN
    { [roms |-> r, romsCount |-> scanned.romsCount,
       maxRomPages |-> PageCount(scanned.romsCount),
       overflow |-> scanned.overflow] :
        r \in qsort(scanned.roms, scanned.romsCount) }

(***************************************************************************)
(* urlDecode: %xx sequences become the character with that code.           *)
(***************************************************************************)
HexDigits ==
  << "0", "1", "2", "3", "4", "5", "6", "7", "8", "9", "A", "B", "C" >>

isxdigit(c) ==
  \E i \in 1..Len(HexDigits) : tolower(HexDigits[i]) = tolower(c)

HexValue(c) ==
  (CHOOSE i \in 1..Len(HexDigits) : tolower(HexDigits[i]) = tolower(c)) - 1

\* ASCII codes of the characters of Alphabet, position by position.
AsciiCodes ==
  << 32, 37, 46, 47, 48, 49, 50, 51, 52, 53, 54, 55, 56, 57,
     65, 66, 67, 71, 73, 77, 78, 79, 82,
     97, 98, 99, 103, 105, 109, 110, 111, 113, 114, 115, 116, 120 >>

\* (char)code; a code outside Alphabet is shown as "?".
chr(code) ==
  IF \E i \in 1..Len(AsciiCodes) : AsciiCodes[i] = code
    THEN Alphabet[CHOOSE i \in 1..Len(AsciiCodes) : AsciiCodes[i] = code]
    ELSE "?"

RECURSIVE urlDecodeFrom(_, _, _)
urlDecodeFrom(src, dest, destSize) ==
  IF src = <<>> \/ ~(Len(dest) < destSize - 1) THEN dest
  ELSE IF /\ Head(src) = "%"
          /\ Len(src) >= 3
          /\ isxdigit(src[2])
          /\ isxdigit(src[3])
    THEN urlDecodeFrom(SubSeq(src, 4, Len(src)),
                       Append(dest, chr(HexValue(src[2]) * 16 + HexValue(src[3]))),
                       destSize)
  ELSE urlDecodeFrom(Tail(src), Append(dest, Head(src)), destSize)

urlDecode(src, destSize) == urlDecodeFrom(src, <<>>, destSize)

MAX_PATH_SIZE == 128

(***************************************************************************)
(* readRomsCsv.  csv.open is FALSE when f_open fails, else csv.lines are   *)
(* the lines f_gets returns, each a string of characters that ends with    *)
(* its newline when the document has one there.                            *)
(***************************************************************************)
Quote == "\""

isspace(c) == c \in { " ", "\n", "\t", "\r" }

\* while (*ptr && isspace(*ptr)) ptr++;
RECURSIVE SkipSpace(_, _)
SkipSpace(line, ptr) ==
  IF ptr <= Len(line) /\ isspace(line[ptr]) THEN SkipSpace(line, ptr + 1)
  ELSE ptr

\* while (*ptr && (*ptr == ',' || isspace(*ptr))) ptr++;
RECURSIVE SkipSeparators(_, _)
SkipSeparators(line, ptr) ==
  IF ptr <= Len(line) /\ (line[ptr] = "," \/ isspace(line[ptr]))
    THEN SkipSeparators(line, ptr + 1)
  ELSE ptr

\* while (*ptr && *ptr != '"' && jdx < sizeof(dest) - 1) dest[jdx++] = *ptr++;
\* the position where the copy stops.
RECURSIVE CopyEnd(_, _, _, _)
CopyEnd(line, ptr, jdx, size) ==
  IF ptr <= Len(line) /\ line[ptr] # Quote /\ jdx < size - 1
    THEN CopyEnd(line, ptr + 1, jdx + 1, size)
  ELSE ptr

\* EXTRACT_FIELD(dest) with sizeof(dest) = size, from position ptr of line:
\* ok is FALSE when the field does not open with a quote (goto next_line),
\* else field is the text copied and ptr the position after the field.
ExtractField(line, ptr, size) ==
  LET open == SkipSpace(line, ptr) IN
    IF open > Len(line) \/ line[open] # Quote
      THEN [ok |-> FALSE, field |-> <<>>, ptr |-> open]
    ELSE LET stop == CopyEnd(line, open + 1, 0, size)
             after == IF stop <= Len(line) /\ line[stop] = Quote
                        THEN stop + 1 ELSE stop
         IN [ok |-> TRUE, field |-> SubSeq(line, open + 1, stop - 1),
             ptr |-> SkipSeparators(line, after)]

\* One pass of the line loop up to the five fields: [kind |-> "empty"] for
\* a line that is skipped as empty, [kind |-> "bad"] for one that is left
\* at next_line, else [kind |-> "row", f1 .. f5] with the raw text of the
\* five fields.
ParseLine(line) ==
  IF line = <<>> \/ line[1] = "\n" THEN [kind |-> "empty"]
  ELSE LET e1 == ExtractField(line, 1, MAX_PATH_SIZE * 2)
           e2 == ExtractField(line, e1.ptr, MAX_PATH_SIZE * 2)
           e3 == ExtractField(line, e2.ptr, MAX_PATH_SIZE)
           e4 == ExtractField(line, e3.ptr, MAX_PATH_SIZE * 2)
           e5 == ExtractField(line, e4.ptr, MAX_PATH_SIZE \div 4)
       IN IF e1.ok /\ e2.ok /\ e3.ok /\ e4.ok /\ e5.ok
            THEN [kind |-> "row", f1 |-> e1.field, f2 |-> e2.field,
                  f3 |-> e3.field, f4 |-> e4.field, f5 |-> e5.field]
            ELSE [kind |-> "bad"]

RECURSIVE ParseLines(_, _)
ParseLines(st, lines) ==
  IF lines = <<>> THEN st
  ELSE LET line == ParseLine(Head(lines)) IN
    IF line.kind # "row" THEN ParseLines(st, Tail(lines))
    ELSE IF st.romsCount < MAX_ROMS
      THEN ParseLines(
             [roms |-> [st.roms EXCEPT ![st.romsCount] =
                          [filename |-> Take(line.f1, MAX_FILENAME_LENGTH - 1),
                           path |-> RomsFolder \o << "/" >> \o
                                    urlDecode(line.f1, MAX_PATH_SIZE * 2),
                           name |-> Take(urlDecode(line.f2, MAX_PATH_SIZE * 2),
                                         MAX_FILENAME_LENGTH - 1),
                           description |-> Take(urlDecode(line.f3, MAX_PATH_SIZE),
                                                MAX_PATH_SIZE - 1),
                           tags |-> Take(urlDecode(line.f4, MAX_PATH_SIZE * 2),
                                         MAX_FILENAME_LENGTH - 1),
                           size |-> atoi(line.f5)]],
              romsCount |-> st.romsCount + 1],
             Tail(lines))
    ELSE st

readRomsCsv(csv, st) ==
  IF ~csv.open THEN {[st EXCEPT !.romsCount = 0]}
  ELSE IF csv.lines = <<>> THEN {[st EXCEPT !.romsCount = 0]}
  ELSE LET parsed ==
             ParseLines([roms |-> st.roms, romsCount |-> 0], Tail(csv.lines)) IN
    { [roms |-> r, romsCount |-> parsed.romsCount,
       maxRomPages |-> PageCount(parsed.romsCount)] :
        r \in qsort(parsed.roms, parsed.romsCount) }

(***************************************************************************)
(* The flash provisioner storeFileToFlash.  The erase sector and the       *)
(* programming page (4096 and 256 bytes on the device) are scaled down;    *)
(* the 4-byte header is as in the code.  As on the device, the sector is   *)
(* larger than the header, so that a whole number of sectors is never a    *)
(* whole number of sectors plus 4 bytes.                                   *)
(***************************************************************************)
FLASH_SECTOR_SIZE == 6
FLASH_PAGE_SIZE == 2

\* CHANGE_ENDIANESS_BLOCK16: swap the two bytes of every 16-bit word.
ChangeEndianessBlock16(buf) ==
  [i \in 1..Len(buf) |->
     IF i % 2 = 1 THEN (IF i + 1 <= Len(buf) THEN buf[i + 1] ELSE buf[i])
     ELSE buf[i - 1]]

\* The padded size of a chunk of n bytes.
PaddedSize(n) ==
  IF n % FLASH_PAGE_SIZE # 0
    THEN ((n + FLASH_PAGE_SIZE - 1) \div FLASH_PAGE_SIZE) * FLASH_PAGE_SIZE
    ELSE n

\* memset(buffer + programSize, FLASH_PAGE_SIZE, ...): the fill value is
\* converted to unsigned char.
PadByte == FLASH_PAGE_SIZE % 256

PadChunk(chunk) ==
  chunk \o [i \in 1..(PaddedSize(Len(chunk)) - Len(chunk)) |-> PadByte]

\* The chunk loop: data are the bytes from the file pointer on, call the
\* number of the next f_read, fault the injected I/O fault, offset the flash
\* offset, ops the erase+program pairs done so far.
RECURSIVE ProgramChunks(_, _, _, _, _)
ProgramChunks(data, call, fault, offset, ops) ==
  IF fault.kind = "read" /\ fault.call = call
    THEN [res |-> "FR_DISK_ERR", ops |-> ops]
  ELSE IF data = <<>> THEN [res |-> "FR_OK", ops |-> ops]
  ELSE LET bytesRead == Min(FLASH_SECTOR_SIZE, Len(data))
           chunk == SubSeq(data, 1, bytesRead)
           buffer == ChangeEndianessBlock16(PadChunk(chunk))
       IN ProgramChunks(SubSeq(data, bytesRead + 1, Len(data)), call + 1, fault,
                        offset + bytesRead,
                        Append(ops, [offset |-> offset,
                                     programSize |-> Len(buffer),
                                     buffer |-> buffer]))

\* storeFileToFlash that never looks for the 4-byte header.
storeFileToFlashWholeFile(file, fault) ==
  IF ~file.exists THEN [res |-> "FR_NO_FILE", ops |-> <<>>]
  ELSE ProgramChunks(file.data, 1, fault, 0, <<>>)

\* storeFileToFlash(filename, flashAddress): file.exists is FALSE when f_open
\* fails, file.data are the bytes of the file; fault is one of
\*   [kind |-> "none"], [kind |-> "read", call |-> n] (the n-th f_read fails),
\*   [kind |-> "short"] (the header read returns fewer than 4 bytes),
\*   [kind |-> "seek"] (f_lseek fails).
\* The flash offset starts at 0 (flashAddress - XIP_BASE, taken as the origin).
storeFileToFlash(file, fault) ==
  IF ~file.exists THEN [res |-> "FR_NO_FILE", ops |-> <<>>]
  ELSE LET size == Len(file.data) IN
    IF size > 4 /\ (size - 4) % FLASH_SECTOR_SIZE = 0
      THEN IF fault.kind = "read" /\ fault.call = 1
             THEN [res |-> "FR_DISK_ERR", ops |-> <<>>]
           ELSE IF fault.kind = "short"
             THEN [res |-> "FR_OK", ops |-> <<>>]
           ELSE IF \A i \in 1..4 : file.data[i] = 0
             THEN ProgramChunks(SubSeq(file.data, 5, size), 2, fault, 0, <<>>)
           ELSE IF fault.kind = "seek"
             THEN [res |-> "FR_INT_ERR", ops |-> <<>>]
           ELSE ProgramChunks(file.data, 2, fault, 0, <<>>)
      ELSE ProgramChunks(file.data, 1, fault, 0, <<>>)

\* flash_range_erase followed by flash_range_program of one chunk.
EraseProgram(image, op) ==
  [a \in DOMAIN image |->
     IF a >= op.offset /\ a < op.offset + op.programSize
       THEN op.buffer[a - op.offset + 1]
       ELSE image[a]]

RECURSIVE ApplyOps(_, _)
ApplyOps(image, ops) ==
  IF ops = <<>> THEN image
  ELSE ApplyOps(EraseProgram(image, Head(ops)), Tail(ops))

(***************************************************************************)
(* The download engine (download.c), seen through its interface:           *)
(* download_getStatus / download_setStatus / download_setFilepath /        *)
(* download_start / download_poll / download_finish / download_confirm.    *)
(***************************************************************************)
\* download_start(): the download is under way, or it fails and the status
\* is the one before the call.
download_start(status) ==
  { [err |-> "DOWNLOAD_OK", status |-> "IN_PROGRESS"],
    [err |-> "DOWNLOAD_ERROR", status |-> status] }

\* download_poll(): the transfer goes on or has ended.
download_poll(status) == { "IN_PROGRESS", "COMPLETED" }

(***************************************************************************)
(* Bounded inputs.                                                         *)
(***************************************************************************)
NameA == << "a", ".", "r", "o", "m" >>
NameB == << "B", ".", "B", "I", "N" >>
NameC == << "c", ".", "i", "m", "g" >>
NameText == << "n", ".", "t", "x", "t" >>
NameHidden == << ".", "x", ".", "r", "o", "m" >>
NameDir == << "r", "o", "m", "s" >>
NameG == << "g", ".", "b", "i", "n" >>

File(n) == [fname |-> n, dir |-> FALSE]

\* Contents of the ROMs folder offered to a local scan.
Dirs ==
  { [open |-> FALSE, entries |-> <<>>],
    [open |-> TRUE, entries |-> <<>>],
    [open |-> TRUE,
     entries |-> << File(NameC), [fname |-> NameDir, dir |-> TRUE],
                    File(NameText), File(NameA), File(NameHidden),
                    File(NameB), File(NameG) >>],
    [open |-> TRUE,
     entries |-> << File(NameText), File(NameG), File(NameA) >>] }

\* "A.rom" with its first letter percent-encoded.
NameEnc == << "%", "4", "1", ".", "r", "o", "m" >>

Quoted(text) == << Quote >> \o text \o << Quote >>

\* A line of the document with the five quoted fields URL, name,
\* description, tags and size.
Row(url, size) ==
  Quoted(url) \o << "," >> \o Quoted(url) \o << "," >> \o Quoted(<<>>)
    \o << "," >> \o Quoted(<<>>) \o << "," >> \o Quoted(size) \o << "\n" >>

HeaderLine == Row(<< "r", "o", "m" >>, << "s" >>)

\* A line without quotes, a line of two fields, and a line whose last
\* field is not closed.
UnquotedLine == NameG \o << ",", "6", "4", "\n" >>

ShortLine == Quoted(NameB) \o << "," >> \o Quoted(NameB) \o << "\n" >>

UnclosedLine ==
  Quoted(NameC) \o << "," >> \o Quoted(NameC) \o << "," >> \o Quoted(<<>>)
    \o << "," >> \o Quoted(<<>>) \o << ",", Quote, "6", "4", "\n" >>

\* Contents of /roms/roms.csv offered to a remote parse.
Csvs ==
  { [open |-> FALSE, lines |-> <<>>],
    [open |-> TRUE, lines |-> << HeaderLine >>],
    [open |-> TRUE,
     lines |-> << HeaderLine, UnquotedLine, Row(NameEnc, << "q" >>),
                  << "\n" >>, UnclosedLine, ShortLine >>] }

\* n payload bytes, none of them zero.
Payload(n) == [i \in 1..n |-> ((i - 1) % 7) + 1]

\* The 4 bytes 0x00000000 that open a STEEM cartridge image.
ZeroHeader == << 0, 0, 0, 0 >>

\* 4 bytes that are not all zero.
PlainHeader == << 9, 0, 0, 0 >>

\* Files found on the card under the selected name: none, a file shorter
\* than a page, files of 4 bytes plus 0, 1 and 2 sectors with a zero header,
\* the same files without the header, and a file of 4 bytes plus 1 sector
\* whose first 4 bytes are payload.
Files ==
  { [exists |-> FALSE, data |-> <<>>],
    [exists |-> TRUE, data |-> << 1, 2, 3 >>],
    [exists |-> TRUE, data |-> ZeroHeader],
    [exists |-> TRUE, data |-> ZeroHeader \o Payload(FLASH_SECTOR_SIZE)],
    [exists |-> TRUE, data |-> Payload(FLASH_SECTOR_SIZE)],
    [exists |-> TRUE, data |-> PlainHeader \o Payload(FLASH_SECTOR_SIZE)],
    [exists |-> TRUE, data |-> ZeroHeader \o Payload(2 * FLASH_SECTOR_SIZE)],
    [exists |-> TRUE, data |-> Payload(2 * FLASH_SECTOR_SIZE)] }

NoFault == [kind |-> "none", call |-> 0]

Faults ==
  { NoFault, [kind |-> "read", call |-> 1], [kind |-> "short", call |-> 0] }

\* The I/O faults offered to the provisioner on its own: a failure of the
\* first, second or third f_read, a short header read, a failure of f_lseek.
ProvisionFaults ==
  Faults \cup { [kind |-> "read", call |-> 2], [kind |-> "read", call |-> 3],
                [kind |-> "seek", call |-> 0] }

\* Raw input lines that match no command of the table; atoi reads the
\* leading digits of a line and nothing of a line that has none.
Tokens ==
  { <<>>, << "0" >>, << "1" >>, << "2" >>, << "3" >>, << "q" >>,
    << "2", "q" >> }

\* The time one iteration of the main loop takes beyond sleep_ms(SLEEP_LOOP_MS).
LoopSlack == { 900 }

FlashSize == 20

(***************************************************************************)
(* State.                                                                  *)
(***************************************************************************)
VARIABLES
  pc,                  \* position of emul_start
  now,                 \* get_absolute_time(), in ms
  romMode,             \* persisted ACONFIG_PARAM_ROM_MODE
  romSelected,         \* persisted ACONFIG_PARAM_ROM_SELECTED
  roms,                \* static ROM roms[MAX_ROMS]
  romsCount,
  currentRomPage,
  maxRomPages,
  downloadRomSelected,
  menuLevel,           \* menuState.menuLevel
  keepActive,
  resetDeviceAtBoot,
  delayMode,
  downloadStatus,      \* the engine's status
  downloadFilepath,    \* the engine's target
  startDownloadTime,   \* local of emul_start
  attempt,             \* local of emul_start (WiFi connection attempts)
  wifiErr,             \* local err of emul_start
  flash,               \* the flash image from _rom_temp_start on
  calls                \* calls to the collaborators made by the last step

vars ==
  << pc, now, romMode, romSelected, roms, romsCount, currentRomPage,
     maxRomPages, downloadRomSelected, menuLevel, keepActive,
     resetDeviceAtBoot, delayMode, downloadStatus, downloadFilepath,
     startDownloadTime, attempt, wifiErr, flash, calls >>

catalogVars == << roms, romsCount, currentRomPage, maxRomPages >>
configVars == << romMode, romSelected >>
engineVars == << downloadStatus, downloadFilepath >>
wifiVars == << attempt, wifiErr >>
flagVars == << keepActive, resetDeviceAtBoot, delayMode >>

Call(op, arg) == [op |-> op, arg |-> arg]

Called(op) == \E i \in 1..Len(calls) : calls[i].op = op

\* make_timeout_time_ms(ms)
make_timeout_time_ms(ms) == now + ms

\* absolute_time_diff_us(from, to), in ms
absolute_time_diff(from, to) == to - from

Init ==
  /\ pc = "boot"
  /\ now = 0
  /\ romMode \in {ROM_MODE_DIRECT, ROM_MODE_DELAY, ROM_MODE_SETUP}
  /\ romSelected \in {<<>>, NameA}
  /\ roms = [i \in 0..(MAX_ROMS - 1) |-> EmptyRom]
  /\ romsCount = 0
  /\ currentRomPage = 0
  /\ maxRomPages = 0
  /\ downloadRomSelected = -1
  /\ menuLevel = 0
  /\ keepActive = TRUE
  /\ resetDeviceAtBoot = TRUE
  /\ delayMode = FALSE
  /\ downloadStatus = "IDLE"
  /\ downloadFilepath = <<>>
  /\ startDownloadTime = 0
  /\ attempt = 0
  /\ wifiErr = "NONE"
  /\ flash = [a \in 0..(FlashSize - 1) |-> 255]
  /\ calls = <<>>

(***************************************************************************)
(* emul_start up to the main loop.                                         *)
(***************************************************************************)
maxAttempts == 3

CatalogUrl == << "c", "s", "v" >>

\* protocol://host/ of download_getUrlComponents()
UrlBase == << "h", "/" >>

\* Steps 1-2: read ROM_MODE and branch.
Boot ==
  /\ pc = "boot"
  /\ pc' = IF romMode = ROM_MODE_DELAY THEN "wait_select"
           ELSE IF romMode = ROM_MODE_DIRECT THEN "emulation"
           ELSE "sdcard"
  /\ calls' = IF romMode = ROM_MODE_DELAY THEN << Call("select_configure", <<>>) >>
              ELSE IF romMode = ROM_MODE_DIRECT
                THEN << Call("COPY_FIRMWARE_TO_RAM", << "rom" >>),
                        Call("init_romemul", <<>>) >>
              ELSE << Call("COPY_FIRMWARE_TO_RAM", << "term" >>),
                      Call("init_romemul", <<>>) >>
  /\ UNCHANGED << now, configVars, catalogVars, downloadRomSelected, menuLevel,
                  flagVars, engineVars, startDownloadTime, wifiVars, flash >>

\* ROM_MODE_DELAY: SELECT is pushed and released, the ROM is staged.
WaitSelect ==
  /\ pc = "wait_select"
  /\ pc' = "emulation"
  /\ calls' = << Call("select_waitPush", <<>>),
                 Call("COPY_FIRMWARE_TO_RAM", << "rom" >>),
                 Call("init_romemul", <<>>) >>
  /\ UNCHANGED << now, configVars, catalogVars, downloadRomSelected, menuLevel,
                  flagVars, engineVars, startDownloadTime, wifiVars, flash >>

\* EmulationExit that resets without putting the mode back to setup.
EmulationExitKeepsMode ==
  /\ pc = "emulation"
  /\ pc' = "reset"
  /\ calls' = << Call("select_waitPush", <<>>), Call("reset_device", <<>>) >>
  /\ UNCHANGED << now, configVars, catalogVars, downloadRomSelected, menuLevel,
                  flagVars, engineVars, startDownloadTime, wifiVars, flash >>

\* SELECT is pushed while emulating: back to setup mode and reset.
EmulationExit ==
  /\ pc = "emulation"
  /\ romMode' = ROM_MODE_SETUP
  /\ pc' = "reset"
  /\ calls' = << Call("select_waitPush", <<>>), Call("settings_save", <<>>),
                 Call("reset_device", <<>>) >>
  /\ UNCHANGED << now, romSelected, catalogVars, downloadRomSelected, menuLevel,
                  flagVars, engineVars, startDownloadTime, wifiVars, flash >>

\* SdcardInit that goes on to the network after the error screen.
SdcardInitGoesOn ==
  /\ pc = "sdcard"
  /\ \E ok \in BOOLEAN :
       /\ pc' = "network"
       /\ calls' = IF ok THEN << Call("preinit", <<>>) >>
                   ELSE << Call("failure", <<>>) >>
  /\ UNCHANGED << now, configVars, catalogVars, downloadRomSelected, menuLevel,
                  flagVars, engineVars, startDownloadTime, wifiVars, flash >>

\* Step 5: sdcard_initFilesystem.
SdcardInit ==
  /\ pc = "sdcard"
  /\ \E ok \in BOOLEAN :
       /\ pc' = IF ok THEN "network" ELSE "sd_failed"
       /\ calls' = IF ok THEN << Call("preinit", <<>>) >>
                   ELSE << Call("failure", <<>>) >>
  /\ UNCHANGED << now, configVars, catalogVars, downloadRomSelected, menuLevel,
                  flagVars, engineVars, startDownloadTime, wifiVars, flash >>

\* while (1) { term_loop(); blink_toogle(); }
SdcardFailedLoop ==
  /\ pc = "sd_failed"
  /\ calls' = << Call("term_loop", <<>>), Call("blink_toogle", <<>>) >>
  /\ UNCHANGED << pc, now, configVars, catalogVars, downloadRomSelected,
                  menuLevel, flagVars, engineVars, startDownloadTime, wifiVars,
                  flash >>

\* Step 6: WiFi mode and network_wifiInit.
NetworkInit ==
  /\ pc = "network"
  /\ \E wifiMode \in {"NULL", "WIFI_MODE_AP", "WIFI_MODE_STA"}, initOk \in BOOLEAN :
       IF wifiMode = "WIFI_MODE_STA" /\ initOk
         THEN /\ pc' = "wifi_connect"
              /\ attempt' = 0
              /\ wifiErr' = "TIMEOUT"
              /\ calls' = << Call("network_wifiInit", <<>>) >>
         ELSE /\ pc' = "catalog"
              /\ UNCHANGED wifiVars
              /\ calls' = IF wifiMode = "WIFI_MODE_STA"
                            THEN << Call("network_wifiInit", <<>>) >>
                            ELSE <<>>
  /\ UNCHANGED << now, configVars, catalogVars, downloadRomSelected, menuLevel,
                  flagVars, engineVars, startDownloadTime, flash >>

\* WifiConnect that goes on after an error that is not a timeout.
WifiConnectRetriesErrors ==
  /\ pc = "wifi_connect"
  /\ IF attempt < maxAttempts /\ wifiErr # "OK"
       THEN /\ \E err \in {"OK", "ERROR", "TIMEOUT"} : wifiErr' = err
            /\ attempt' = attempt + 1
            /\ calls' = << Call("network_wifiStaConnect", <<>>) >>
            /\ UNCHANGED pc
       ELSE /\ pc' = "catalog"
            /\ attempt' = 0
            /\ wifiErr' = "NONE"
            /\ calls' = <<>>
  /\ UNCHANGED << now, configVars, catalogVars, downloadRomSelected, menuLevel,
                  flagVars, engineVars, startDownloadTime, flash >>

\* One evaluation of the while condition of the connection loop and, when it
\* holds, one network_wifiStaConnect().  The locals are dead after the loop
\* and are put back to their initial values on leaving it.
WifiConnect ==
  /\ pc = "wifi_connect"
  /\ IF attempt < maxAttempts /\ wifiErr = "TIMEOUT"
       THEN /\ \E err \in {"OK", "ERROR", "TIMEOUT"} : wifiErr' = err
            /\ attempt' = attempt + 1
            /\ calls' = << Call("network_wifiStaConnect", <<>>) >>
            /\ UNCHANGED pc
       ELSE /\ pc' = "catalog"
            /\ attempt' = 0
            /\ wifiErr' = "NONE"
            /\ calls' = <<>>
  /\ UNCHANGED << now, configVars, catalogVars, downloadRomSelected, menuLevel,
                  flagVars, engineVars, startDownloadTime, flash >>

\* Step 7: the catalog download is started when a catalog URL is configured.
CatalogDownload ==
  /\ pc = "catalog"
  /\ pc' = "init"
  /\ \/ /\ calls' = <<>>
        /\ UNCHANGED engineVars
     \/ /\ downloadFilepath' = CatalogUrl
        /\ \E out \in download_start(downloadStatus) :
             downloadStatus' = out.status
        /\ calls' = << Call("download_setFilepath", CatalogUrl),
                       Call("download_start", <<>>) >>
  /\ UNCHANGED << now, configVars, catalogVars, downloadRomSelected, menuLevel,
                  flagVars, startDownloadTime, wifiVars, flash >>

\* Steps 8-9: init() renders the menu; the loop's timers are set.
InitMenu ==
  /\ pc = "init"
  /\ pc' = "loop"
  /\ menuLevel' = TERM_ROMS_MENU_MAIN
  /\ startDownloadTime' = make_timeout_time_ms(DOWNLOAD_DAY_MS)
  /\ calls' = << Call("menu", romSelected) >>
  /\ UNCHANGED << now, configVars, catalogVars, downloadRomSelected, flagVars,
                  engineVars, wifiVars, flash >>

(***************************************************************************)
(* The command handlers.  term_loop() dispatches one input line through    *)
(* the command table; the handlers of term.c (settings, print, save,       *)
(* erase, get and the put commands) are not part of this model.            *)
(***************************************************************************)
\* The command table with ? bound to cmdMenu.
commandsQuestionMenu ==
  [k \in {"m", "n", "p", "h", "b", "d", "l", "r", "e", "x", "?", ""} |->
     CASE k = "m" -> "cmdMenu"
       [] k = "n" -> "cmdNext"
       [] k = "p" -> "cmdPrev"
       [] k = "h" -> "cmdHelp"
       [] k = "b" -> "cmdCard"
       [] k = "d" -> "cmdNetwork"
       [] k = "l" -> "cmdLaunch"
       [] k = "r" -> "cmdDelay"
       [] k = "e" -> "cmdExit"
       [] k = "x" -> "cmdBooster"
       [] k = "?" -> "cmdMenu"
       [] k = "" -> "cmdUnknown"]

commands ==
  [k \in {"m", "n", "p", "h", "b", "d", "l", "r", "e", "x", "?", ""} |->
     CASE k = "m" -> "cmdMenu"
       [] k = "n" -> "cmdNext"
       [] k = "p" -> "cmdPrev"
       [] k = "h" -> "cmdHelp"
       [] k = "b" -> "cmdCard"
       [] k = "d" -> "cmdNetwork"
       [] k = "l" -> "cmdLaunch"
       [] k = "r" -> "cmdDelay"
       [] k = "e" -> "cmdExit"
       [] k = "x" -> "cmdBooster"
       [] k = "?" -> "cmdHelp"
       [] k = "" -> "cmdUnknown"]

Keys == DOMAIN commands

\* term_loop() has read a line whose command key is key.
TermCmd(key, handler) ==
  /\ pc = "term"
  /\ commands[key] = handler
  /\ pc' = "download"

loopVars == << now, startDownloadTime, wifiVars >>

\* The calls of one term_loop() that dispatched the command key.
Handled(key, handlerCalls) == << Call("term_loop", << key >>) >> \o handlerCalls

\* displayRomsPage: the start and end index of the page.
DisplayStart(count, pageSize, pageNumber) ==
  LET startIndex == pageNumber * pageSize IN
    IF startIndex >= count THEN count - 1 ELSE startIndex

DisplayEnd(count, pageSize, pageNumber) ==
  LET endIndex == DisplayStart(count, pageSize, pageNumber) + pageSize IN
    IF endIndex > count THEN count ELSE endIndex

\* navigatePages(pageNumber) with a catalog of count entries: the entries
\* startIndex .. endIndex-1 are read and printed.
navigatePages(count, pageNumber) ==
  Call("displayRomsPage",
       << DisplayStart(count, MAX_ROMS_PER_PAGE, pageNumber),
          DisplayEnd(count, MAX_ROMS_PER_PAGE, pageNumber) >>)

\* menu(): the main menu with the selection sel.
menu(sel) == Call("menu", sel)

cmdMenu(key) ==
  /\ TermCmd(key, "cmdMenu")
  /\ menuLevel' = TERM_ROMS_MENU_MAIN
  /\ calls' = Handled(key, << menu(romSelected) >>)
  /\ UNCHANGED << loopVars, configVars, catalogVars, downloadRomSelected,
                  flagVars, engineVars, flash >>

\* cmdNext without the test for the last page.
cmdNextUnclamped(key) ==
  /\ TermCmd(key, "cmdNext")
  /\ currentRomPage' = currentRomPage + 1
  /\ calls' = Handled(key, << navigatePages(romsCount, currentRomPage') >>)
  /\ UNCHANGED << loopVars, configVars, roms, romsCount, maxRomPages,
                  downloadRomSelected, menuLevel, flagVars, engineVars, flash >>

cmdNext(key) ==
  /\ TermCmd(key, "cmdNext")
  /\ currentRomPage' = IF currentRomPage < maxRomPages - 1
                         THEN currentRomPage + 1
                         ELSE currentRomPage
  /\ calls' = Handled(key, << navigatePages(romsCount, currentRomPage') >>)
  /\ UNCHANGED << loopVars, configVars, roms, romsCount, maxRomPages,
                  downloadRomSelected, menuLevel, flagVars, engineVars, flash >>

cmdPrev(key) ==
  /\ TermCmd(key, "cmdPrev")
  /\ currentRomPage' = IF currentRomPage - 1 < 0 THEN 0 ELSE currentRomPage - 1
  /\ calls' = Handled(key, << navigatePages(romsCount, currentRomPage') >>)
  /\ UNCHANGED << loopVars, configVars, roms, romsCount, maxRomPages,
                  downloadRomSelected, menuLevel, flagVars, engineVars, flash >>

cmdHelp(key) ==
  /\ TermCmd(key, "cmdHelp")
  /\ calls' = Handled(key, << Call("term_printString", << "h", "e", "l", "p" >>) >>)
  /\ UNCHANGED << loopVars, configVars, catalogVars, downloadRomSelected,
                  menuLevel, flagVars, engineVars, flash >>

cmdExit(key) ==
  /\ TermCmd(key, "cmdExit")
  /\ calls' = Handled(key, << Call("SEND_COMMAND_TO_DISPLAY", << "CONTINUE" >>) >>)
  /\ UNCHANGED << loopVars, configVars, catalogVars, downloadRomSelected,
                  menuLevel, flagVars, engineVars, flash >>

\* The log of a scan that ran out of room: DPRINTF("Maximum ROM count
\* reached (%d)\n", MAX_ROMS).
ScanLog(st) ==
  IF st.overflow THEN << Call("DPRINTF", << "Maximum ROM count reached" >>) >>
  ELSE <<>>

\* cmdCardDir that renders the current page instead of page 0.
cmdCardDirKeepsPage(key, dir) ==
  /\ TermCmd(key, "cmdCard")
  /\ \E st \in readRomsSdcard(dir, [roms |-> roms, romsCount |-> romsCount,
                                    maxRomPages |-> maxRomPages]) :
       /\ roms' = st.roms
       /\ romsCount' = st.romsCount
       /\ maxRomPages' = st.maxRomPages
       /\ IF st.romsCount = 0
            THEN calls' = Handled(key, ScanLog(st)
                            \o << Call("term_printString", << "N", "o" >>) >>)
            ELSE calls' = Handled(key, ScanLog(st)
                            \o << navigatePages(st.romsCount, currentRomPage) >>)
  /\ menuLevel' = TERM_ROMS_MENU_BROWSE_SD
  /\ UNCHANGED << loopVars, configVars, currentRomPage, downloadRomSelected,
                  flagVars, engineVars, flash >>

\* cmdCard when the ROMs folder is dir.
cmdCardDir(key, dir) ==
  /\ TermCmd(key, "cmdCard")
  /\ \E st \in readRomsSdcard(dir, [roms |-> roms, romsCount |-> romsCount,
                                    maxRomPages |-> maxRomPages]) :
       /\ roms' = st.roms
       /\ romsCount' = st.romsCount
       /\ maxRomPages' = st.maxRomPages
       /\ IF st.romsCount = 0
            THEN /\ calls' = Handled(key, ScanLog(st)
                              \o << Call("term_printString", << "N", "o" >>) >>)
                 /\ UNCHANGED currentRomPage
            ELSE /\ currentRomPage' = 0
                 /\ calls' = Handled(key, ScanLog(st)
                              \o << navigatePages(st.romsCount, 0) >>)
  /\ menuLevel' = TERM_ROMS_MENU_BROWSE_SD
  /\ UNCHANGED << loopVars, configVars, downloadRomSelected, flagVars,
                  engineVars, flash >>

cmdCard(key) == \E dir \in Dirs : cmdCardDir(key, dir)

\* cmdNetwork when /roms/roms.csv is csv.
cmdNetworkCsv(key, csv) ==
  /\ TermCmd(key, "cmdNetwork")
  /\ \E st \in readRomsCsv(csv, [roms |-> roms, romsCount |-> romsCount,
                                  maxRomPages |-> maxRomPages]) :
       /\ roms' = st.roms
       /\ romsCount' = st.romsCount
       /\ maxRomPages' = st.maxRomPages
       /\ calls' = Handled(key, << navigatePages(st.romsCount, 0) >>)
  /\ menuLevel' = TERM_ROMS_MENU_BROWSE_NETWORK
  /\ currentRomPage' = 0
  /\ UNCHANGED << loopVars, configVars, downloadRomSelected, flagVars,
                  engineVars, flash >>

cmdNetwork(key) == \E csv \in Csvs : cmdNetworkCsv(key, csv)

\* LaunchMode with the two modes exchanged.
LaunchModeSwapped(delay) == IF delay THEN ROM_MODE_DIRECT ELSE ROM_MODE_DELAY

\* delayMode ? ROM_MODE_DELAY : ROM_MODE_DIRECT
LaunchMode(delay) == IF delay THEN ROM_MODE_DELAY ELSE ROM_MODE_DIRECT

\* The file f_open finds under romsFolder "/" selection: with an empty
\* selection the path names the folder itself and the open fails.
SelectedFiles(sel) == IF sel = <<>> THEN { f \in Files : ~f.exists } ELSE Files

\* FlashCalls that leaves the interrupts disabled after a chunk.
RECURSIVE FlashCallsNoRestore(_)
FlashCallsNoRestore(ops) ==
  IF ops = <<>> THEN <<>>
  ELSE << Call("save_and_disable_interrupts", <<>>),
          Call("flash_range_erase", << Head(ops).offset, Head(ops).programSize >>),
          Call("flash_range_program",
               << Head(ops).offset, Head(ops).programSize, Head(ops).buffer >>) >>
       \o FlashCallsNoRestore(Tail(ops))

\* The calls storeFileToFlash makes: f_open finds the file with the bytes
\* data, every chunk is erased and programmed with the interrupts disabled
\* and the interrupts are put back, res is returned.
RECURSIVE FlashCalls(_)
FlashCalls(ops) ==
  IF ops = <<>> THEN <<>>
  ELSE << Call("save_and_disable_interrupts", <<>>),
          Call("flash_range_erase", << Head(ops).offset, Head(ops).programSize >>),
          Call("flash_range_program",
               << Head(ops).offset, Head(ops).programSize, Head(ops).buffer >>),
          Call("restore_interrupts", << "ints" >>) >>
       \o FlashCalls(Tail(ops))

StoreCalls(file, stored) ==
  << Call("f_open", file.data) >> \o FlashCalls(stored.ops)
    \o << Call("storeFileToFlash", << stored.res >>) >>

\* cmdLaunch when f_open finds file and the card answers with fault.
cmdLaunchFile(key, file, fault) ==
  /\ TermCmd(key, "cmdLaunch")
  /\ menuLevel' = TERM_ROMS_MENU_LAUNCH
  /\ LET stored == storeFileToFlash(file, fault) IN
       /\ flash' = ApplyOps(flash, stored.ops)
       /\ IF stored.res # "FR_OK"
            THEN /\ calls' = Handled(key, StoreCalls(file, stored))
                 /\ UNCHANGED << romMode, keepActive >>
            ELSE /\ romMode' = LaunchMode(delayMode)
                 /\ keepActive' = FALSE
                 /\ calls' = Handled(key, StoreCalls(file, stored)
                                          \o << Call("settings_save", <<>>) >>)
  /\ UNCHANGED << loopVars, romSelected, catalogVars, downloadRomSelected,
                  resetDeviceAtBoot, delayMode, engineVars >>

cmdLaunch(key) ==
  \E file \in SelectedFiles(romSelected), fault \in Faults :
    cmdLaunchFile(key, file, fault)

\* cmdBooster that leaves resetDeviceAtBoot set.
cmdBoosterKeepsReset(key) ==
  /\ TermCmd(key, "cmdBooster")
  /\ menuLevel' = TERM_ROMS_MENU_BOOSTER
  /\ keepActive' = FALSE
  /\ calls' = Handled(key, << Call("term_printString", << "B" >>) >>)
  /\ UNCHANGED << loopVars, configVars, catalogVars, downloadRomSelected,
                  resetDeviceAtBoot, delayMode, engineVars, flash >>

cmdBooster(key) ==
  /\ TermCmd(key, "cmdBooster")
  /\ menuLevel' = TERM_ROMS_MENU_BOOSTER
  /\ resetDeviceAtBoot' = FALSE
  /\ keepActive' = FALSE
  /\ calls' = Handled(key, << Call("term_printString", << "B" >>) >>)
  /\ UNCHANGED << loopVars, configVars, catalogVars, downloadRomSelected,
                  delayMode, engineVars, flash >>

cmdDelay(key) ==
  /\ TermCmd(key, "cmdDelay")
  /\ delayMode' = ~delayMode
  /\ menuLevel' = TERM_ROMS_MENU_MAIN
  /\ calls' = Handled(key, << menu(romSelected) >>)
  /\ UNCHANGED << loopVars, configVars, catalogVars, downloadRomSelected,
                  keepActive, resetDeviceAtBoot, engineVars, flash >>

\* ValidRomNumber that takes the row after the last one.
ValidRomNumberPastEnd(romNumber, count) ==
  romNumber > 0 /\ romNumber <= count + 1

\* ValidRomNumber with the last row left out.
ValidRomNumberExclusive(romNumber, count) == romNumber > 0 /\ romNumber < count

\* romNumber > 0 && romNumber <= romsCount
ValidRomNumber(romNumber, count) == romNumber > 0 /\ romNumber <= count

\* RomIndex one row too low (the first row stays the first).
RomIndexRowBefore(romNumber) == IF romNumber > 1 THEN romNumber - 2 ELSE 0

\* The catalog index of the row shown as romNumber.
RomIndex(romNumber) == romNumber - 1

\* arg[0] == '\0' || arg[0] == '\n'
IsReturn(arg) == arg = <<>> \/ Head(arg) = "\n"

\* What a read of roms[i] yields: outside the array it is whatever lies
\* next to it in memory.
GarbageRoms == { EmptyRom, [EmptyRom EXCEPT !.filename = << "?" >>] }

RomsAt(i) == IF i \in DOMAIN roms THEN { roms[i] } ELSE GarbageRoms

cmdUnknown(key, arg) ==
  /\ TermCmd(key, "cmdUnknown")
  /\ CASE menuLevel = TERM_ROMS_MENU_MAIN ->
            /\ menuLevel' = TERM_ROMS_MENU_MAIN
            /\ calls' = Handled(key, << menu(romSelected) >>)
            /\ UNCHANGED << romSelected, currentRomPage, downloadRomSelected,
                            engineVars >>
       [] menuLevel = TERM_ROMS_MENU_BROWSE_SD ->
            IF ValidRomNumber(atoi(arg), romsCount)
              THEN /\ romSelected' = roms[RomIndex(atoi(arg))].filename
                   /\ menuLevel' = TERM_ROMS_MENU_MAIN
                   /\ calls' = Handled(key, << Call("settings_save", <<>>), menu(romSelected') >>)
                   /\ UNCHANGED << currentRomPage, downloadRomSelected,
                                   engineVars >>
              ELSE /\ calls' = Handled(key, << Call("term_printString", << "I" >>) >>)
                   /\ UNCHANGED << romSelected, menuLevel, currentRomPage,
                                   downloadRomSelected, engineVars >>
       [] menuLevel = TERM_ROMS_MENU_BROWSE_NETWORK ->
            IF ValidRomNumber(atoi(arg), romsCount)
              THEN /\ downloadRomSelected' = RomIndex(atoi(arg))
                   /\ menuLevel' = TERM_ROMS_MENU_BROWSE_NETWORK
                                     + TERM_ROMS_MENU_SUBMENU
                   /\ calls' = Handled(key, << Call("detail", << RomIndex(atoi(arg)) >>) >>)
                   /\ UNCHANGED << romSelected, currentRomPage, engineVars >>
              ELSE /\ calls' = Handled(key, << Call("term_printString", << "I" >>) >>)
                   /\ UNCHANGED << romSelected, menuLevel, currentRomPage,
                                   downloadRomSelected, engineVars >>
       [] menuLevel = TERM_ROMS_MENU_BROWSE_NETWORK + TERM_ROMS_MENU_SUBMENU ->
            IF IsReturn(arg)
              THEN /\ romSelected' = <<>>
                   /\ \E rom \in RomsAt(downloadRomSelected) :
                        /\ downloadFilepath' = UrlBase \o rom.filename
                        /\ calls' = Handled(key, << Call("settings_save", <<>>),
                                       Call("download_setFilepath",
                                            UrlBase \o rom.filename),
                                       Call("download_start", <<>>),
                                       menu(<<>>) >>)
                   /\ \E out \in download_start(downloadStatus) :
                        downloadStatus' = out.status
                   /\ menuLevel' = TERM_ROMS_MENU_MAIN
                   /\ UNCHANGED << currentRomPage, downloadRomSelected >>
              ELSE /\ menuLevel' = TERM_ROMS_MENU_BROWSE_NETWORK
                   /\ calls' = Handled(key, << navigatePages(romsCount, currentRomPage) >>)
                   /\ UNCHANGED << romSelected, currentRomPage,
                                   downloadRomSelected, engineVars >>
       [] menuLevel = TERM_ROMS_MENU_LAUNCH ->
            /\ calls' = Handled(key, <<>>)
            /\ UNCHANGED << romSelected, menuLevel, currentRomPage,
                            downloadRomSelected, engineVars >>
       [] OTHER ->
            /\ calls' = Handled(key, << Call("term_printString", << "U" >>) >>)
            /\ UNCHANGED << romSelected, menuLevel, currentRomPage,
                            downloadRomSelected, engineVars >>
  /\ UNCHANGED << loopVars, romMode, roms, romsCount, maxRomPages, flagVars,
                  flash >>

\* term_loop() finds no complete input line.
TermIdle ==
  /\ pc = "term"
  /\ pc' = "download"
  /\ calls' = <<>>
  /\ UNCHANGED << loopVars, configVars, catalogVars, downloadRomSelected,
                  menuLevel, flagVars, engineVars, flash >>

(***************************************************************************)
(* The main loop of emul_start and the download state machine.             *)
(***************************************************************************)
\* while (getKeepActive()) { sleep_ms(SLEEP_LOOP_MS); ...
LoopHead ==
  /\ pc = "loop"
  /\ IF keepActive
       THEN /\ \E slack \in LoopSlack : now' = now + SLEEP_LOOP_MS + slack
            /\ now' <= MaxTime
            /\ pc' = "term"
       ELSE /\ pc' = "post"
            /\ UNCHANGED now
  /\ calls' = <<>>
  /\ UNCHANGED << configVars, catalogVars, downloadRomSelected, menuLevel,
                  flagVars, engineVars, startDownloadTime, wifiVars, flash >>

\* A download is requested from outside the loop: the engine reports
\* DOWNLOAD_STATUS_REQUESTED at the next download_getStatus().
DownloadRequest ==
  /\ pc = "term"
  /\ downloadStatus \in {"IDLE", "NOT_STARTED"}
  /\ downloadStatus' = "REQUESTED"
  /\ UNCHANGED << pc, now, configVars, catalogVars, downloadRomSelected,
                  menuLevel, flagVars, downloadFilepath, startDownloadTime,
                  wifiVars, flash, calls >>

\* ResumeTime with the delay of the loop's initial timer.
ResumeTimeDay == make_timeout_time_ms(DOWNLOAD_DAY_MS)

\* The time at which a requested download is started.
ResumeTime == make_timeout_time_ms(DOWNLOAD_START_MS)

\* StartDue with the comparison turned around.
StartDueEarly == absolute_time_diff(now, startDownloadTime) > 0

\* absolute_time_diff_us(get_absolute_time(), startDownloadTime) < 0
StartDue == absolute_time_diff(now, startDownloadTime) < 0

\* StatusAfterCompleted without the reset to Idle.
StatusLeftCompleted == "COMPLETED"

\* The status set after download_finish() and download_confirm().
StatusAfterCompleted == "IDLE"

\* if (downloadRomSelected > 0)
HasDownloadedRom == downloadRomSelected > 0

\* switch (download_getStatus()) of the main loop.
DownloadStep ==
  /\ pc = "download"
  /\ pc' = "loop"
  /\ CASE downloadStatus = "REQUESTED" ->
            /\ startDownloadTime' = ResumeTime
            /\ downloadStatus' = "NOT_STARTED"
            /\ calls' = << Call("download_setStatus", << "NOT_STARTED" >>) >>
            /\ UNCHANGED << romSelected, menuLevel >>
       [] downloadStatus = "NOT_STARTED" ->
            /\ IF StartDue
                 THEN /\ \E out \in download_start(downloadStatus) :
                           downloadStatus' = out.status
                      /\ calls' = << Call("download_start", <<>>) >>
                 ELSE /\ calls' = <<>>
                      /\ UNCHANGED downloadStatus
            /\ UNCHANGED << startDownloadTime, romSelected, menuLevel >>
       [] downloadStatus = "IN_PROGRESS" ->
            /\ \E st \in download_poll(downloadStatus) : downloadStatus' = st
            /\ calls' = << Call("download_poll", <<>>) >>
            /\ UNCHANGED << startDownloadTime, romSelected, menuLevel >>
       [] downloadStatus = "COMPLETED" ->
            /\ downloadStatus' = StatusAfterCompleted
            /\ IF HasDownloadedRom
                 THEN /\ \E rom \in RomsAt(downloadRomSelected) :
                           romSelected' = rom.filename
                      /\ menuLevel' = TERM_ROMS_MENU_MAIN
                      /\ calls' = << Call("download_finish", <<>>),
                                     Call("download_confirm", <<>>),
                                     Call("download_setStatus", << "IDLE" >>),
                                     Call("settings_save", <<>>),
                                     menu(romSelected') >>
                 ELSE /\ calls' = << Call("download_finish", <<>>),
                                     Call("download_confirm", <<>>),
                                     Call("download_setStatus", << "IDLE" >>) >>
                      /\ UNCHANGED << romSelected, menuLevel >>
            /\ UNCHANGED startDownloadTime
       [] OTHER ->
            /\ calls' = <<>>
            /\ UNCHANGED << downloadStatus, startDownloadTime, romSelected,
                            menuLevel >>
  /\ UNCHANGED << now, romMode, catalogVars, downloadRomSelected, flagVars,
                  downloadFilepath, wifiVars, flash >>

\* PostLoop that cleans the settings on both branches.
PostLoopCleansBoth ==
  /\ pc = "post"
  /\ romSelected' = <<>>
  /\ romMode' = ROM_MODE_SETUP
  /\ IF resetDeviceAtBoot
       THEN /\ pc' = "reset"
            /\ calls' = << Call("SEND_COMMAND_TO_DISPLAY", << "RESET" >>),
                           Call("settings_save", <<>>),
                           Call("reset_device", <<>>) >>
       ELSE /\ pc' = "booster"
            /\ calls' = << Call("SEND_COMMAND_TO_DISPLAY", << "RESET" >>),
                           Call("settings_save", <<>>),
                           Call("reset_jump_to_booster", <<>>) >>
  /\ UNCHANGED << now, catalogVars, downloadRomSelected, menuLevel, flagVars,
                  engineVars, startDownloadTime, wifiVars, flash >>

\* Step 10: after the loop.
PostLoop ==
  /\ pc = "post"
  /\ IF resetDeviceAtBoot
       THEN /\ pc' = "reset"
            /\ calls' = << Call("SEND_COMMAND_TO_DISPLAY", << "RESET" >>),
                           Call("reset_device", <<>>) >>
            /\ UNCHANGED configVars
       ELSE /\ pc' = "booster"
            /\ romSelected' = <<>>
            /\ romMode' = ROM_MODE_SETUP
            /\ calls' = << Call("SEND_COMMAND_TO_DISPLAY", << "RESET" >>),
                           Call("settings_save", <<>>),
                           Call("reset_jump_to_booster", <<>>) >>
  /\ UNCHANGED << now, catalogVars, downloadRomSelected, menuLevel, flagVars,
                  engineVars, startDownloadTime, wifiVars, flash >>

\* One command of the table, key being the command key of the input line.
Dispatch(key) ==
  \/ cmdMenu(key)
  \/ cmdNext(key)
  \/ cmdPrev(key)
  \/ cmdHelp(key)
  \/ cmdExit(key)
  \/ cmdCard(key)
  \/ cmdNetwork(key)
  \/ cmdLaunch(key)
  \/ cmdBooster(key)
  \/ cmdDelay(key)
  \/ \E arg \in Tokens : cmdUnknown(key, arg)

Next ==
  \/ Boot
  \/ WaitSelect
  \/ EmulationExit
  \/ SdcardInit
  \/ SdcardFailedLoop
  \/ NetworkInit
  \/ WifiConnect
  \/ CatalogDownload
  \/ InitMenu
  \/ LoopHead
  \/ \E key \in Keys : cmdMenu(key)
  \/ \E key \in Keys : cmdNext(key)
  \/ \E key \in Keys : cmdPrev(key)
  \/ \E key \in Keys : cmdHelp(key)
  \/ \E key \in Keys : cmdExit(key)
  \/ \E key \in Keys : cmdCard(key)
  \/ \E key \in Keys : cmdNetwork(key)
  \/ \E key \in Keys : cmdLaunch(key)
  \/ \E key \in Keys : cmdBooster(key)
  \/ \E key \in Keys : cmdDelay(key)
  \/ \E key \in Keys, arg \in Tokens : cmdUnknown(key, arg)
  \/ TermIdle
  \/ DownloadRequest
  \/ DownloadStep
  \/ PostLoop

Spec == Init /\ [][Next]_vars

(***************************************************************************)
(* Properties.                                                             *)
(***************************************************************************)
\* The next value of calls holds a call of op.
CalledNext(op) == \E i \in 1..Len(calls') : calls'[i].op = op

(***************************************************************************)
(* The provisioner on its own: l is typed in the main loop of a device in  *)
(* Setup mode with a ROM selected, at any menu level and with the delay    *)
(* mode on or off, and f_open finds any of the files while the card        *)
(* answers with any of the I/O faults.  The flash holds what an earlier    *)
(* launch has left there.                                                  *)
(***************************************************************************)
InitProvision ==
  /\ pc = "term"
  /\ now = 0
  /\ romMode = ROM_MODE_SETUP
  /\ romSelected = NameA
  /\ roms = [i \in 0..(MAX_ROMS - 1) |-> EmptyRom]
  /\ romsCount = 0
  /\ currentRomPage = 0
  /\ maxRomPages = 0
  /\ downloadRomSelected = -1
  /\ menuLevel \in { TERM_ROMS_MENU_MAIN, TERM_ROMS_MENU_BROWSE_SD,
                      TERM_ROMS_MENU_BROWSE_NETWORK, TERM_ROMS_MENU_LAUNCH }
  /\ keepActive = TRUE
  /\ resetDeviceAtBoot = TRUE
  /\ delayMode \in BOOLEAN
  /\ downloadStatus = "IDLE"
  /\ downloadFilepath = <<>>
  /\ startDownloadTime = 0
  /\ attempt = 0
  /\ wifiErr = "NONE"
  /\ flash \in { ApplyOps([a \in 0..(FlashSize - 1) |-> 255],
                           storeFileToFlash(file, NoFault).ops) :
                    file \in Files }
  /\ calls = <<>>

Provision ==
  \E file \in Files, fault \in ProvisionFaults : cmdLaunchFile("l", file, fault)

SpecProvision == InitProvision /\ [][Provision]_vars

\* The provisioning call of the step returned res.
ProvisionedNext(res) ==
  \E i \in 1..Len(calls') :
    calls'[i].op = "storeFileToFlash" /\ calls'[i].arg = << res >>

\* C1: when the download status is Completed, the stashed index is a valid
\* one (0 .. romsCount-1, the first row included) and the download is the
\* one of the stashed entry, the download step persists the filename of the
\* stashed entry as the selected ROM, renders the main menu and leaves the
\* menu level Main.
C1_CompletedPersistsStash ==
  [][ ( /\ DownloadStep
        /\ downloadStatus = "COMPLETED"
        /\ downloadRomSelected \in 0..(romsCount - 1)
        /\ downloadFilepath = UrlBase \o roms[downloadRomSelected].filename )
      => ( /\ romSelected' = roms[downloadRomSelected].filename
           /\ menuLevel' = TERM_ROMS_MENU_MAIN
           /\ CalledNext("menu") ) ]_vars

\* C2: the e command signals the host to resume, moves the menu level to
\* Exit and clears keepActive; each of the terminal commands l (when the
\* provisioning succeeds), x and e clears keepActive.
C2_ExitEndsLoop ==
  [][ /\ cmdExit("e")
        => ( /\ CalledNext("SEND_COMMAND_TO_DISPLAY")
             /\ menuLevel' = TERM_ROMS_MENU_EXIT
             /\ keepActive' = FALSE )
      /\ ( \/ cmdExit("e")
           \/ cmdBooster("x")
           \/ (cmdLaunch("l") /\ ProvisionedNext("FR_OK")) )
        => keepActive' = FALSE ]_vars

C4_LaunchFailureKeepsState ==
  [][ ( /\ cmdLaunch("l")
        /\ ~ProvisionedNext("FR_OK") )
      => UNCHANGED << romMode, keepActive, catalogVars, menuLevel >> ]_vars

\* C5 as claimed: m and ? both render the main menu and set the menu level
\* to Main.
C5_MenuAndQuestionMark ==
  [][ \A key \in {"m", "?"} :
        Dispatch(key) => ( /\ menuLevel' = TERM_ROMS_MENU_MAIN
                           /\ CalledNext("menu") ) ]_vars

\* C5 as amended: m renders the main menu and sets the menu level to Main
\* from any level; ? (like h) prints the help text, renders no menu and
\* leaves the menu level as it was.
C5_MenuCommand ==
  [][ /\ Dispatch("m") => ( /\ menuLevel' = TERM_ROMS_MENU_MAIN
                            /\ CalledNext("menu") )
      /\ \A key \in {"?", "h"} :
           Dispatch(key) => ( /\ menuLevel' = menuLevel
                              /\ CalledNext("term_printString")
                              /\ ~CalledNext("menu") ) ]_vars

\* ? was typed while browsing and the level is still a browse level.
C5_Witness ==
  /\ pc = "download"
  /\ menuLevel = TERM_ROMS_MENU_BROWSE_SD
  /\ Len(calls) >= 1
  /\ calls[1] = Call("term_loop", << "?" >>)

\* C6: a download step that finds the status Requested sets the resume time
\* to 3 seconds after the current time and the status to NotStarted, and does
\* not call download_start.
C6_RequestedSchedules ==
  [][ (DownloadStep /\ downloadStatus = "REQUESTED")
      => ( /\ startDownloadTime' = now + 3000
           /\ downloadStatus' = "NOT_STARTED"
           /\ ~CalledNext("download_start") ) ]_vars

\* A Requested status has been handled by the download step.
C6_Witness ==
  /\ pc = "loop"
  /\ downloadStatus = "NOT_STARTED"
  /\ startDownloadTime = now + 3000
  /\ Called("download_setStatus")

C8_CompletedOnce ==
  [][ /\ (DownloadStep /\ downloadStatus = "COMPLETED")
        => ( /\ Len(calls') >= 2
             /\ calls'[1].op = "download_finish"
             /\ calls'[2].op = "download_confirm"
             /\ downloadStatus' = "IDLE" )
      /\ (DownloadStep /\ downloadStatus = "IDLE")
        => ( /\ calls' = <<>>
             /\ UNCHANGED << now, configVars, catalogVars, downloadRomSelected,
                             menuLevel, flagVars, engineVars, startDownloadTime,
                             wifiVars, flash >> ) ]_vars

\* A Completed status has been handled by the download step.
C8_Witness ==
  /\ pc = "loop"
  /\ downloadStatus = "IDLE"
  /\ Len(calls) >= 2
  /\ calls[1].op = "download_finish"
  /\ calls[2].op = "download_confirm"

\* C9: the stashed index takes a value other than none only when a valid row
\* is picked in BrowseRemote, and it is none again after any input handled in
\* BrowseRemoteDetail (the download confirmed or abandoned).
C9_StashCleared ==
  [][ /\ (downloadRomSelected' # downloadRomSelected /\ downloadRomSelected' # -1)
        => \E arg \in Tokens :
             /\ cmdUnknown("", arg)
             /\ menuLevel = TERM_ROMS_MENU_BROWSE_NETWORK
             /\ ValidRomNumber(atoi(arg), romsCount)
      /\ \A arg \in Tokens :
           ( /\ cmdUnknown("", arg)
             /\ menuLevel = TERM_ROMS_MENU_BROWSE_NETWORK + TERM_ROMS_MENU_SUBMENU )
           => downloadRomSelected' = -1 ]_vars

\* C10: in BrowseRemote a numeric token k in 1..romsCount stashes k-1 and
\* moves to BrowseRemoteDetail; an empty input in BrowseRemoteDetail clears
\* the persisted selection, sets the download target built from the filename
\* of the stashed row, starts the download and returns to Main; a token
\* outside 1..romsCount leaves menu level, stash and selection as they were.
C10_RemotePickAndConfirm ==
  [][ \A arg \in Tokens :
        /\ ( /\ cmdUnknown("", arg)
             /\ menuLevel = TERM_ROMS_MENU_BROWSE_NETWORK
             /\ atoi(arg) \in 1..romsCount )
           => ( /\ downloadRomSelected' = atoi(arg) - 1
                /\ menuLevel' = TERM_ROMS_MENU_BROWSE_NETWORK
                                  + TERM_ROMS_MENU_SUBMENU
                /\ UNCHANGED << romSelected, catalogVars >> )
        /\ ( /\ cmdUnknown("", arg)
             /\ menuLevel = TERM_ROMS_MENU_BROWSE_NETWORK + TERM_ROMS_MENU_SUBMENU
             /\ arg = <<>> )
           => ( /\ downloadRomSelected \in 0..(romsCount - 1)
                /\ romSelected' = <<>>
                /\ downloadFilepath' = UrlBase \o roms[downloadRomSelected].filename
                /\ \E i \in 1..(Len(calls') - 1) :
                     /\ calls'[i] = Call("download_setFilepath",
                                         UrlBase \o roms[downloadRomSelected].filename)
                     /\ calls'[i + 1].op = "download_start"
                /\ menuLevel' = TERM_ROMS_MENU_MAIN )
        /\ ( /\ cmdUnknown("", arg)
             /\ menuLevel = TERM_ROMS_MENU_BROWSE_NETWORK
             /\ atoi(arg) \notin 1..romsCount )
           => UNCHANGED << menuLevel, downloadRomSelected, romSelected >> ]_vars

\* The second row of a remote catalog was picked and confirmed.
C10_Witness ==
  /\ pc = "download"
  /\ menuLevel = TERM_ROMS_MENU_MAIN
  /\ downloadRomSelected = 1
  /\ romsCount = 2
  /\ romSelected = <<>>
  /\ downloadFilepath = UrlBase \o roms[1].filename
  /\ Called("download_start")

\* term_loop() has dispatched an input line with the command key in the step.
Typed(key) ==
  /\ pc = "term"
  /\ Len(calls') >= 1
  /\ calls'[1].op = "term_loop"
  /\ calls'[1].arg = << key >>

\* C11: in BrowseLocal a token whose number k (as atoi reads it) is in
\* 1..romsCount persists the filename of catalog row k as the selected ROM,
\* saves it and returns the menu to Main; a token whose number is not in
\* 1..romsCount leaves the persisted selection and the menu level BrowseLocal
\* as they were.
C11_LocalPick ==
  [][ \A arg \in Tokens :
        /\ ( /\ Typed("")
             /\ cmdUnknown("", arg)
             /\ menuLevel = TERM_ROMS_MENU_BROWSE_SD
             /\ atoi(arg) \in 1..romsCount )
           => ( /\ romSelected' = roms[atoi(arg) - 1].filename
                /\ menuLevel' = TERM_ROMS_MENU_MAIN
                /\ CalledNext("settings_save")
                /\ CalledNext("menu") )
        /\ ( /\ Typed("")
             /\ cmdUnknown("", arg)
             /\ menuLevel = TERM_ROMS_MENU_BROWSE_SD
             /\ atoi(arg) \notin 1..romsCount )
           => ( /\ romSelected' = romSelected
                /\ menuLevel' = TERM_ROMS_MENU_BROWSE_SD
                /\ ~CalledNext("settings_save") ) ]_vars

\* The second row of a local catalog of three was picked.
C11_Witness ==
  /\ pc = "download"
  /\ menuLevel = TERM_ROMS_MENU_MAIN
  /\ romsCount = 3
  /\ romSelected = NameB
  /\ romSelected = roms[1].filename
  /\ Len(calls) >= 2
  /\ calls[1].op = "term_loop"
  /\ calls[2].op = "settings_save"

\* C12: when the ROMs folder cannot be opened, b leaves the catalog with 0
\* entries and shows the empty message instead of a page.
C12_OpenFailureEmpties ==
  [][ \A dir \in Dirs :
        (Typed("b") /\ cmdCardDir("b", dir) /\ ~dir.open)
        => ( /\ romsCount' = 0
             /\ CalledNext("term_printString")
             /\ ~CalledNext("displayRomsPage") ) ]_vars

\* C13: after a local scan or a remote parse, whatever its outcome, the page
\* count is ceil(romsCount / page size).
C13_PageCountFollowsCount ==
  [][ ((Typed("b") /\ cmdCard("b")) \/ (Typed("d") /\ cmdNetwork("d")))
      => maxRomPages' = PageCount(romsCount') ]_vars

\* C14: n adds one to the current page unless the current page is the last
\* one (or beyond), and then leaves it; p takes one from the current page
\* unless it is page 0, and then leaves it; neither changes the menu level,
\* the catalog or the persisted selection.
C14_NextPrevClamped ==
  [][ /\ cmdNext("n")
        => ( /\ currentRomPage' = IF currentRomPage >= maxRomPages - 1
                                    THEN currentRomPage
                                    ELSE currentRomPage + 1
             /\ UNCHANGED << menuLevel, roms, romsCount, maxRomPages,
                             romSelected >> )
      /\ cmdPrev("p")
        => ( /\ currentRomPage' = IF currentRomPage = 0
                                    THEN currentRomPage
                                    ELSE currentRomPage - 1
             /\ UNCHANGED << menuLevel, roms, romsCount, maxRomPages,
                             romSelected >> ) ]_vars

\* n has moved a catalog of several pages from page 0 to page 1.
C14_Witness ==
  /\ pc = "download"
  /\ Len(calls) >= 1
  /\ calls[1].op = "term_loop"
  /\ calls[1].arg = << "n" >>
  /\ currentRomPage = 1
  /\ maxRomPages >= 2
  /\ romsCount > MAX_ROMS_PER_PAGE

\* C15: b sets the menu level to BrowseLocal; with a catalog of size 0 after
\* the scan the empty message is printed and no page is rendered, otherwise
\* page 0 is rendered (from row 0) and the current page is 0.
C15_CardCommand ==
  [][ (Typed("b") /\ cmdCard("b"))
      => ( /\ menuLevel' = TERM_ROMS_MENU_BROWSE_SD
           /\ IF romsCount' = 0
                THEN /\ CalledNext("term_printString")
                     /\ ~CalledNext("displayRomsPage")
                ELSE /\ currentRomPage' = 0
                     /\ \E i \in 1..Len(calls') :
                          /\ calls'[i].op = "displayRomsPage"
                          /\ calls'[i].arg[1] = 0 ) ]_vars

\* b found no ROM in the folder: the empty message is printed and no page
\* is rendered.
C15_Witness ==
  /\ pc = "download"
  /\ menuLevel = TERM_ROMS_MENU_BROWSE_SD
  /\ romsCount = 0
  /\ Len(calls) = 2
  /\ calls[1].op = "term_loop"
  /\ calls[1].arg = << "b" >>
  /\ calls[2].op = "term_printString"

\* C16: x clears resetDeviceAtBoot (the jump to the booster is asked for) and
\* keepActive and sets the menu level to Booster, from any level; nothing
\* else clears resetDeviceAtBoot and nothing sets it or keepActive again;
\* after the loop the booster is jumped to and the device is not reset when
\* resetDeviceAtBoot is clear, and the device is reset and the booster is
\* not jumped to when it is set.
C16_BoosterJump ==
  [][ /\ cmdBooster("x")
        => ( /\ resetDeviceAtBoot' = FALSE
             /\ keepActive' = FALSE
             /\ menuLevel' = TERM_ROMS_MENU_BOOSTER )
      /\ (resetDeviceAtBoot' # resetDeviceAtBoot)
        => (cmdBooster("x") /\ resetDeviceAtBoot)
      /\ ~keepActive => ~keepActive'
      /\ (PostLoop /\ ~resetDeviceAtBoot)
        => ( /\ pc' = "booster"
             /\ CalledNext("reset_jump_to_booster")
             /\ ~CalledNext("reset_device") )
      /\ (PostLoop /\ resetDeviceAtBoot)
        => ( /\ pc' = "reset"
             /\ CalledNext("reset_device")
             /\ ~CalledNext("reset_jump_to_booster") ) ]_vars

\* After x the loop was left and the booster was jumped to.
C16_Witness ==
  /\ pc = "booster"
  /\ ~resetDeviceAtBoot
  /\ ~keepActive
  /\ Called("reset_jump_to_booster")
  /\ ~Called("reset_device")

\* C17 as claimed: on the branch after the loop that ends in the device
\* reset, the persisted selection is cleared and the mode is put back to
\* Setup and saved.
C17_ResetPathCleans ==
  [][ (PostLoop /\ pc' = "reset")
      => ( /\ romSelected' = <<>>
           /\ romMode' = ROM_MODE_SETUP
           /\ CalledNext("settings_save") ) ]_vars

\* C17 as amended: the persisted selection is cleared and the mode is put
\* back to Setup and saved on the branch that ends in the jump to the
\* booster; on the branch that ends in the device reset the selection and
\* the mode are left as they were and nothing is saved.
C17_BoosterPathCleans ==
  [][ /\ (PostLoop /\ pc' = "booster")
        => ( /\ romSelected' = <<>>
             /\ romMode' = ROM_MODE_SETUP
             /\ CalledNext("settings_save") )
      /\ (PostLoop /\ pc' = "reset")
        => ( /\ UNCHANGED << romSelected, romMode >>
             /\ ~CalledNext("settings_save") ) ]_vars

\* After a launch of the selected ROM the device was reset with the
\* selection and the launch mode still persisted.
C17_Witness ==
  /\ pc = "reset"
  /\ romSelected # <<>>
  /\ romMode = ROM_MODE_DIRECT
  /\ Called("reset_device")
  /\ Called("SEND_COMMAND_TO_DISPLAY")

\* The calls of the setup path: storage, network, menu and main loop.
SetupCalls ==
  { "failure", "preinit", "network_wifiInit", "network_wifiStaConnect",
    "download_setFilepath", "download_start", "menu", "term_loop" }

\* C18: with the mode Direct or Delayed at boot the position goes boot ->
\* (wait for SELECT, in Delayed only) -> emulation -> reset and stays there:
\* no storage or network bring-up, no menu, no main loop; the step out of the
\* emulation persists the mode Setup, saves it and then resets the device.
C18_EmulationPath ==
  [][ /\ (pc = "boot" /\ romMode = ROM_MODE_DIRECT) => pc' = "emulation"
      /\ (pc = "boot" /\ romMode = ROM_MODE_DELAY) => pc' = "wait_select"
      /\ pc = "wait_select"
        => ( /\ romMode = ROM_MODE_DELAY
             /\ pc' = "emulation"
             /\ CalledNext("select_waitPush") )
      /\ pc = "emulation"
        => ( /\ pc' = "reset"
             /\ romMode' = ROM_MODE_SETUP
             /\ CalledNext("select_waitPush")
             /\ \E i, j \in 1..Len(calls') :
                  /\ i < j
                  /\ calls'[i].op = "settings_save"
                  /\ calls'[j].op = "reset_device" )
      /\ (pc \in {"wait_select", "emulation"} \/ pc' \in {"wait_select", "emulation"})
        => ( /\ \A i \in 1..Len(calls') : calls'[i].op \notin SetupCalls
             /\ UNCHANGED << catalogVars, menuLevel, keepActive, engineVars >> )
      /\ pc = "reset" => pc' = "reset" ]_vars

\* Booted in Delayed mode, SELECT pushed twice: the mode is Setup and the
\* device is reset.
C18_Witness ==
  /\ pc = "reset"
  /\ romMode = ROM_MODE_SETUP
  /\ Len(calls) = 3
  /\ calls[1].op = "select_waitPush"
  /\ calls[2].op = "settings_save"
  /\ calls[3].op = "reset_device"

\* C19: network_wifiStaConnect is called only with fewer than 3 attempts made
\* and the last result a timeout (the initial value before the first
\* attempt), and each call counts as one attempt; after an Ok or an error
\* that is not a timeout, and after 3 attempts, the next step goes to the
\* catalog download without a call, and from there to init() and the loop.
C19_WifiRetries ==
  [][ /\ CalledNext("network_wifiStaConnect")
        => ( /\ pc = "wifi_connect"
             /\ attempt < 3
             /\ wifiErr = "TIMEOUT"
             /\ attempt' = attempt + 1 )
      /\ attempt' <= 3
      /\ (pc = "wifi_connect" /\ (wifiErr # "TIMEOUT" \/ attempt = 3))
        => ( /\ pc' = "catalog"
             /\ ~CalledNext("network_wifiStaConnect") )
      /\ pc = "catalog" => pc' = "init"
      /\ pc = "init" => (pc' = "loop" /\ CalledNext("menu")) ]_vars

\* Three attempts have ended in a timeout.
C19_Witness ==
  /\ pc = "wifi_connect"
  /\ attempt = 3
  /\ wifiErr = "TIMEOUT"
  /\ Called("network_wifiStaConnect")

\* The file without its first 4 bytes.
Strip(file) == [file EXCEPT !.data = SubSeq(@, 5, Len(@))]

IsFlashCall(c) == c.op \in {"flash_range_erase", "flash_range_program"}

IsProgramCall(c) == c.op = "flash_range_program"

\* The file is programmed from its first byte: one program call per sector
\* of the file, the first at offset 0 with the first bytes of the file.
ProgrammedFromFirstByte(data) ==
  LET programs == SelectSeq(calls', IsProgramCall)
      first == SubSeq(data, 1, Min(FLASH_SECTOR_SIZE, Len(data)))
  IN /\ Len(programs) = (Len(data) + FLASH_SECTOR_SIZE - 1) \div FLASH_SECTOR_SIZE
     /\ programs[1].arg[1] = 0
     /\ programs[1].arg[3] = ChangeEndianessBlock16(PadChunk(first))

\* The erase and program calls of the step are the ones of a provisioning of
\* the file without its first 4 bytes.
ProgrammedAsStripped(file) ==
  SelectSeq(calls', IsFlashCall)
    = SelectSeq(FlashCalls(storeFileToFlash(Strip(file), NoFault).ops),
                IsFlashCall)

\* C20 as claimed: without I/O faults, a file of size 4 + k*sector, k >= 0,
\* whose first 4 bytes are zero gives the erase and program calls of the same
\* file without those 4 bytes, and one whose first 4 bytes are not all zero
\* is programmed from its first byte.
C20_HeaderSkipAnySize ==
  [][ \A file \in Files :
        ( /\ Typed("l")
          /\ file.exists
          /\ Len(file.data) >= 4
          /\ (Len(file.data) - 4) % FLASH_SECTOR_SIZE = 0
          /\ cmdLaunchFile("l", file, NoFault) )
        => IF \A i \in 1..4 : file.data[i] = 0
             THEN ProgrammedAsStripped(file)
             ELSE ProgrammedFromFirstByte(file.data) ]_vars

\* C20 as amended: the same for k >= 1; a file of exactly 4 bytes (k = 0) is
\* programmed from its first byte whatever its bytes are.
C20_HeaderSkip ==
  [][ \A file \in Files :
        /\ ( /\ Typed("l")
             /\ file.exists
             /\ Len(file.data) > 4
             /\ (Len(file.data) - 4) % FLASH_SECTOR_SIZE = 0
             /\ cmdLaunchFile("l", file, NoFault) )
           => IF \A i \in 1..4 : file.data[i] = 0
                THEN ProgrammedAsStripped(file)
                ELSE ProgrammedFromFirstByte(file.data)
        /\ ( /\ Typed("l")
             /\ file.exists
             /\ Len(file.data) = 4
             /\ cmdLaunchFile("l", file, NoFault) )
           => ProgrammedFromFirstByte(file.data) ]_vars

\* A file of 4 zero bytes and one sector was launched: the sector was
\* programmed at offset 0.
C20_Witness ==
  /\ pc = "download"
  /\ \E i \in 1..Len(calls) :
       /\ calls[i].op = "f_open"
       /\ calls[i].arg = ZeroHeader \o Payload(FLASH_SECTOR_SIZE)
  /\ \E i \in 1..Len(calls) :
       /\ calls[i].op = "flash_range_program"
       /\ calls[i].arg[1] = 0
       /\ calls[i].arg[3] = ChangeEndianessBlock16(Payload(FLASH_SECTOR_SIZE))
  /\ \E i \in 1..Len(calls) :
       /\ calls[i].op = "storeFileToFlash"
       /\ calls[i].arg = << "FR_OK" >>

\* The file names of the input folders that carry a ROM extension, and
\* their place in the case-insensitive alphabet.
RomNames == { NameA, NameB, NameC, NameG }

RomRank(n) ==
  IF n = NameA THEN 1 ELSE IF n = NameB THEN 2 ELSE IF n = NameC THEN 3 ELSE 4

\* The K files of a folder that are ROMs: no directory, not hidden, with a
\* ROM extension.
RomFilesOf(dir) ==
  { i \in 1..Len(dir.entries) :
      /\ ~dir.entries[i].dir
      /\ dir.entries[i].fname \in RomNames }

\* C21: a scan of a folder with K ROM files and J other entries leaves the
\* catalog with min(K, MAX_ROMS) entries, each of them one of the K and none
\* twice, in case-insensitive order of the file name; the overflow is
\* logged exactly when K is above MAX_ROMS.
C21_LocalScan ==
  [][ \A dir \in Dirs :
        (Typed("b") /\ dir.open /\ cmdCardDir("b", dir))
        => LET K == Cardinality(RomFilesOf(dir)) IN
             /\ romsCount' = Min(K, MAX_ROMS)
             /\ \A i \in 0..(romsCount' - 1) :
                  \E e \in RomFilesOf(dir) :
                    roms'[i].filename = dir.entries[e].fname
             /\ \A i \in 0..(romsCount' - 2) :
                  RomRank(roms'[i].filename) < RomRank(roms'[i + 1].filename)
             /\ CalledNext("DPRINTF") <=> (K > MAX_ROMS) ]_vars

\* b has scanned a folder with more ROM files than the catalog holds: the
\* catalog is full and the overflow was logged.
C21_Witness ==
  /\ pc = "download"
  /\ Len(calls) >= 2
  /\ calls[1].op = "term_loop"
  /\ calls[1].arg = << "b" >>
  /\ calls[2].op = "DPRINTF"
  /\ romsCount = MAX_ROMS
  /\ menuLevel = TERM_ROMS_MENU_BROWSE_SD

\* The text of a line without its newline.
LineBody(line) ==
  IF line # <<>> /\ line[Len(line)] = "\n" THEN SubSeq(line, 1, Len(line) - 1)
  ELSE line

\* The positions of the double quotes of a text, in order.
QuotePositions(text) ==
  SelectSeq([i \in 1..Len(text) |-> IF text[i] = Quote THEN i ELSE 0],
            LAMBDA i : i # 0)

\* The quoting grammar of a data line: five double-quoted fields and a
\* comma between one field and the next, nothing else.
WellFormed(line) ==
  LET body == LineBody(line)
      q == QuotePositions(body)
  IN /\ Len(q) = 10
     /\ q[1] = 1
     /\ q[10] = Len(body)
     /\ \A k \in 1..4 : q[2 * k] + 2 = q[2 * k + 1] /\ body[q[2 * k] + 1] = ","

\* The first field of a well-formed line.
UrlField(line) ==
  LET q == QuotePositions(LineBody(line)) IN SubSeq(line, q[1] + 1, q[2] - 1)

\* The data lines of a document: all lines but the header and the empty
\* ones.
DataLines(csv) ==
  SelectSeq(Tail(csv.lines), LAMBDA l : LineBody(l) # <<>>)

\* C22: the parse of a document with a header line, L well-formed data
\* lines and M lines that violate the quoting grammar yields min(L,
\* MAX_ROMS) entries, each of them the URL of a well-formed data line; no
\* malformed line and no header becomes an entry.
C22_RemoteParse ==
  [][ \A csv \in Csvs :
        (Typed("d") /\ csv.open /\ csv.lines # <<>> /\ cmdNetworkCsv("d", csv))
        => LET good == SelectSeq(DataLines(csv), WellFormed) IN
             /\ romsCount' = Min(Len(good), MAX_ROMS)
             /\ \A i \in 0..(romsCount' - 1) :
                  \E k \in 1..Len(good) :
                    roms'[i].filename = UrlField(good[k]) ]_vars

\* C26: every entry of a parsed remote catalog has the percent-decoded URL
\* as its filename: no escape is left in it and the path is the ROMs folder,
\* "/" and the filename.
C26_FilenameDecoded ==
  [][ (Typed("d") /\ cmdNetwork("d"))
      => \A i \in 0..(romsCount' - 1) :
           /\ roms'[i].filename = urlDecode(roms'[i].filename, MAX_PATH_SIZE * 2)
           /\ roms'[i].path = RomsFolder \o << "/" >> \o roms'[i].filename ]_vars

\* The file is one whose first 4 bytes storeFileToFlash reads as a header.
HasHeader(file) ==
  Len(file.data) > 4 /\ (Len(file.data) - 4) % FLASH_SECTOR_SIZE = 0

\* The number of f_read calls of a provisioning without faults: the header,
\* one for every chunk and the one that finds the end of the file.
ReadCount(file) ==
  LET skipped == HasHeader(file) /\ \A i \in 1..4 : file.data[i] = 0
      length == IF skipped THEN Len(file.data) - 4 ELSE Len(file.data)
  IN (IF HasHeader(file) THEN 1 ELSE 0)
       + ((length + FLASH_SECTOR_SIZE - 1) \div FLASH_SECTOR_SIZE) + 1

\* The fault is met by the provisioning of the file.
FaultMet(file, fault) ==
  /\ file.exists
  /\ \/ fault.kind = "read" /\ fault.call <= ReadCount(file)
     \/ fault.kind = "short" /\ HasHeader(file)
     \/ /\ fault.kind = "seek"
        /\ HasHeader(file)
        /\ \E i \in 1..4 : file.data[i] # 0

\* C23: a provisioning that meets a read failure, a short header read or a
\* seek failure does not return FR_OK, and l then leaves the device mode and
\* keepActive as they were.
C23_FailureNeverOk ==
  [][ \A file \in Files, fault \in ProvisionFaults :
        (Typed("l") /\ FaultMet(file, fault) /\ cmdLaunchFile("l", file, fault))
        => ( /\ CalledNext("storeFileToFlash")
             /\ ~ProvisionedNext("FR_OK")
             /\ UNCHANGED << romMode, keepActive >> ) ]_vars

\* C24: in every provisioning, with or without fault, every erase comes
\* right after the interrupts are saved and disabled and right before the
\* program of the same range, every program is followed at once by the
\* restore of the interrupts, nothing else saves or restores them, and the
\* k-th chunk goes to the offset of k - 1 whole sectors, the bytes read for
\* the chunks before it.
C24_InterruptsAndOffsets ==
  [][ \A file \in Files, fault \in ProvisionFaults :
        (Typed("l") /\ cmdLaunchFile("l", file, fault))
        => LET n == Len(calls')
               programs == SelectSeq(calls', IsProgramCall)
           IN /\ \A i \in 1..n :
                   calls'[i].op = "flash_range_erase"
                   => /\ i > 1 /\ i + 2 <= n
                      /\ calls'[i - 1].op = "save_and_disable_interrupts"
                      /\ calls'[i + 1].op = "flash_range_program"
                      /\ calls'[i + 1].arg[1] = calls'[i].arg[1]
                      /\ calls'[i + 1].arg[2] = calls'[i].arg[2]
                      /\ calls'[i + 2].op = "restore_interrupts"
              /\ \A i \in 1..n :
                   calls'[i].op = "flash_range_program"
                   => i > 1 /\ calls'[i - 1].op = "flash_range_erase"
              /\ \A i \in 1..n :
                   calls'[i].op = "save_and_disable_interrupts"
                   => i < n /\ calls'[i + 1].op = "flash_range_erase"
              /\ \A i \in 1..n :
                   calls'[i].op = "restore_interrupts"
                   => i > 1 /\ calls'[i - 1].op = "flash_range_program"
              /\ \A k \in 1..Len(programs) :
                   programs[k].arg[1] = (k - 1) * FLASH_SECTOR_SIZE ]_vars

\* A provisioning has programmed a chunk and then ended on a read failure:
\* the interrupts were restored after the chunk.
C24_Witness ==
  /\ pc = "download"
  /\ Called("flash_range_program")
  /\ Called("restore_interrupts")
  /\ \E i \in 1..Len(calls) :
       /\ calls[i].op = "storeFileToFlash"
       /\ calls[i].arg = << "FR_DISK_ERR" >>

\* C25: the current page lies in [0, page count), page 0 being the page of
\* a catalog without pages.
C25_PageInRange ==
  /\ currentRomPage >= 0
  /\ currentRomPage < (IF maxRomPages = 0 THEN 1 ELSE maxRomPages)

\* C27: a failed storage bring-up shows the error screen and enters the
\* recovery loop; the recovery loop is never left, it calls nothing but
\* term_loop and blink_toogle, and it changes neither the menu level nor
\* the download state nor the WiFi state.
C27_RecoveryLoop ==
  [][ /\ (pc = "sdcard" /\ CalledNext("failure")) => pc' = "sd_failed"
      /\ (pc # "sd_failed" /\ pc' = "sd_failed")
           => (pc = "sdcard" /\ CalledNext("failure"))
      /\ pc = "sd_failed"
           => ( /\ pc' = "sd_failed"
                /\ \A i \in 1..Len(calls') :
                     calls'[i].op \in { "term_loop", "blink_toogle" }
                /\ UNCHANGED << menuLevel, engineVars, wifiVars, catalogVars,
                                configVars, flagVars, flash >> ) ]_vars

\* The storage bring-up has failed and the recovery loop has turned once.
C27_Witness ==
  /\ pc = "sd_failed"
  /\ Called("term_loop")
  /\ Called("blink_toogle")
  /\ menuLevel = 0
  /\ downloadStatus = "IDLE"

\* C28: every page rendered starts at an index >= 0 and reads only entries
\* of the populated part of the catalog, and every detail view shows such
\* an entry.
C28_RenderInRange ==
  [][ \A i \in 1..Len(calls') :
        /\ calls'[i].op = "displayRomsPage"
             => ( /\ calls'[i].arg[1] >= 0
                  /\ calls'[i].arg[2] <= romsCount' )
        /\ calls'[i].op = "detail"
             => calls'[i].arg[1] \in 0..(romsCount' - 1) ]_vars

\* C29: when the download of a ROM completes and a selection is persisted,
\* the selection is the filename the download was confirmed for.
C29_CompletionPersistsConfirmed ==
  [][ ( /\ DownloadStep
        /\ downloadStatus = "COMPLETED"
        /\ downloadFilepath # CatalogUrl
        /\ CalledNext("settings_save") )
      => UrlBase \o romSelected' = downloadFilepath ]_vars

\* C30: at the level BrowseRemoteDetail the stashed index is one of the
\* catalog; the level is entered from BrowseRemote only, by a pick from the
\* catalog shown there, and BrowseRemote is entered with a catalog that d
\* has just parsed or comes back from the detail view with the catalog
\* untouched; a step that changes the catalog, and every b and d, leaves
\* the detail level.
C30_DetailStashInRange ==
  [][ LET Detail == TERM_ROMS_MENU_BROWSE_NETWORK + TERM_ROMS_MENU_SUBMENU IN
        /\ menuLevel' = Detail
             => downloadRomSelected' \in 0..(romsCount' - 1)
        /\ (menuLevel # Detail /\ menuLevel' = Detail)
             => ( /\ menuLevel = TERM_ROMS_MENU_BROWSE_NETWORK
                  /\ UNCHANGED << roms, romsCount >> )
        /\ (menuLevel # TERM_ROMS_MENU_BROWSE_NETWORK
               /\ menuLevel' = TERM_ROMS_MENU_BROWSE_NETWORK)
             => \/ Typed("d")
                \/ menuLevel = Detail /\ UNCHANGED << roms, romsCount >>
        /\ (menuLevel = Detail /\ (Typed("b") \/ Typed("d")))
             => menuLevel' # Detail
        /\ (menuLevel = Detail /\ (roms' # roms \/ romsCount' # romsCount))
             => menuLevel' # Detail ]_vars

\* The second row of a remote catalog of two was picked: the detail view
\* shows it.
C30_Witness ==
  /\ pc = "download"
  /\ menuLevel = TERM_ROMS_MENU_BROWSE_NETWORK + TERM_ROMS_MENU_SUBMENU
  /\ downloadRomSelected = 1
  /\ romsCount = 2
  /\ Called("detail")

\* The program calls of the step cover the whole file: one call for every
\* sector of the bytes to program, which are the bytes of the file after
\* its 4 zero header bytes when it has them.
WholeFileProgrammed(file) ==
  LET skipped == HasHeader(file) /\ \A i \in 1..4 : file.data[i] = 0
      length == IF skipped THEN Len(file.data) - 4 ELSE Len(file.data)
  IN Len(SelectSeq(calls', IsProgramCall))
       = (length + FLASH_SECTOR_SIZE - 1) \div FLASH_SECTOR_SIZE

\* C31: the device mode is written as Direct or Delayed, and the settings
\* are saved by l, only in an l step whose provisioning call returned FR_OK
\* with the whole file programmed; every other write of the mode is Setup.
C31_ModeOnlyAfterWholeFile ==
  [][ ( \/ romMode' # romMode /\ romMode' # ROM_MODE_SETUP
        \/ Typed("l") /\ CalledNext("settings_save") )
      => \E file \in Files, fault \in Faults :
           /\ Typed("l")
           /\ cmdLaunchFile("l", file, fault)
           /\ ProvisionedNext("FR_OK")
           /\ WholeFileProgrammed(file) ]_vars

\* C32: with keepActive cleared, nothing changes the menu level or the
\* persisted ROM selection until the step after the loop.
C32_NoChangeAfterExit ==
  [][ (~keepActive /\ pc # "post")
      => UNCHANGED << menuLevel, romSelected >> ]_vars

====
